---- MODULE Spec2Model ----
(***************************************************************************)
(* GateRTO-1000: the Trigger Node (GateControl) control loop with its      *)
(* connect_wifi, and the Actuator Node (GateServer) request handlers.      *)
(* SpecTrigger is the Trigger Node, SpecActuator the Actuator Node.        *)
(***************************************************************************)
EXTENDS Integers, Sequences, FiniteSets, TLC

\* ------------------------------------------------------------------ bounds
\* Number of request-handling contexts of the Actuator Node's HTTP server.
NumHandlers == 2

\* ------------------------------------------------------- program constants
\* Config.max_rssi default (GateControl/src/main.rs:41)
max_rssi == -80

\* Signal strengths a scan can report: below, at and above the threshold.
RssiValues == {max_rssi - 1, max_rssi, max_rssi + 1}
\* Channels a scan can report for the configured access point.
Channels == {1, 6}

\* Option<T>: None is the empty sequence, Some(v) the one-element sequence.
None == <<>>
Some(v) == <<v>>
Unwrap(o) == o[1]

VARIABLES
    \* ---- Trigger Node (GateControl)
    pc,            \* position of main / connect_wifi
    led,           \* last colour written by led.set_pixel
    last_rssi,     \* connect_wifi: let mut last_rssi: Option<i8>
    channel,       \* connect_wifi: let channel = (ours.channel, ours.signal_strength)
    assoc_channel, \* channel of the ClientConfiguration last set (wifi.rs:64)
    wifi_rssi,     \* main: wifi.1, the baseline returned by connect_wifi
    periph_lock,   \* PERIPHERALS mutex held
    sbs_lock,      \* GATE_SBS (button input) mutex held by main
    btn_low,       \* raw level of the button input (gpio9): TRUE = low
    cur,           \* history: the latest low interval of the input (ongoing if btn_low)
    act,           \* history: the low interval the sample of line 88 saw, once it is
                   \*          no longer the latest one
    cur_is_act,    \* history: the latest low interval is the one line 88 saw
    last_get,      \* result of the last get_request: "none", "Ok" or "Err"
    open_gets,     \* history: get_request(gate_open_url) calls of this session
    first_found,   \* history: strength of the first scan of this call that found the AP
    wifi_err,      \* history: the call of connect_wifi that returned Err ("none" if none did)
    since_miss,    \* history: strength of the first such scan since the last not-found scan
    retry,         \* history: why 'wifi_loop last went round again ("miss", "assoc", "dhcp");
                   \*          "none" once a later scan has found the target
    lost,          \* history: link loss was observed (main.rs:103) and the connect_wifi
                   \*          call that follows it has not returned Ok yet
    \* ---- Actuator Node (GateServer)
    hpc,           \* position of each request-handling context
    route,         \* the route each context is serving
    status,        \* the u8 gate_status() returned to each context (None before)
    seen,          \* history: the sensor levels each gate_status() read, and whether
                   \*          an output was high at a read
    result,        \* the body each context has computed
    opened_lock,   \* GATE_OPENED mutex: 0 = free, else the holder
    closed_lock,   \* GATE_CLOSED mutex
    sbs_out_lock,  \* GATE_SBS (step relay) mutex
    open_out_lock, \* GATE_OPEN (full-cycle relay) mutex
    opened_high,   \* electrical level of the opened sensor (gpio0)
    closed_high,   \* electrical level of the closed sensor (gpio1)
    sbs_out,       \* level of the step output (gpio10)
    open_out,      \* level of the full-cycle output (gpio3)
    crashed,       \* a handler panicked (unwrap on Err): the process is gone
    fault          \* history: the pin call whose Err was unwrapped ("none" if none was)

tvars == <<pc, led, last_rssi, channel, assoc_channel, wifi_rssi, periph_lock,
           sbs_lock, btn_low, cur, act, cur_is_act, last_get, open_gets,
           first_found, since_miss, wifi_err, retry, lost>>
avars == <<hpc, route, status, seen, result, opened_lock, closed_lock, sbs_out_lock,
           open_out_lock, opened_high, closed_high, sbs_out, open_out, crashed, fault>>
vars == <<tvars, avars>>

\* ================================================================ Trigger Node

Colours == {"off", "amber", "red", "green", "blue", "violet"}

\* A fresh low interval of the button input.
NewPress ==
    [held |-> FALSE, disp |-> 0, rel |-> 0, seenIdle |-> FALSE, seenRel |-> FALSE]

\* FreeRtos::delay_ms(n), n >= 100: the input stayed low for a whole debounce
\* window if it is low across the delay.
Tick(c) == IF btn_low THEN [c EXCEPT !.held = TRUE] ELSE c

\* Count up, saturating at 2 ("more than one").
Inc(n) == IF n < 2 THEN n + 1 ELSE 2

\* led.set_pixel(colour)?  -- Err makes main return, dropping its guards.
SetPixel(colour, next) ==
    \E ok \in BOOLEAN :
        IF ok THEN led' = colour /\ pc' = next /\ sbs_lock' = sbs_lock
              ELSE led' = led /\ pc' = "exited" /\ sbs_lock' = FALSE

\* The histories of the button input.
PressHist == <<cur, act, cur_is_act>>

TInit ==
    /\ pc = "led_amber"
    /\ led = "off"
    /\ last_rssi = None
    /\ channel = None
    /\ assoc_channel = None
    /\ wifi_rssi = None
    /\ periph_lock = FALSE
    /\ sbs_lock = FALSE
    /\ btn_low = FALSE
    /\ cur = NewPress
    /\ act = NewPress
    /\ cur_is_act = FALSE
    /\ last_get = "none"
    /\ open_gets = 0
    /\ first_found = None
    /\ since_miss = None
    /\ wifi_err = "none"
    /\ retry = "none"
    /\ lost = FALSE

\* main.rs:66  led.set_pixel(amber)?
LedAmber ==
    /\ pc = "led_amber"
    /\ SetPixel("amber", "w_init")
    /\ UNCHANGED <<last_rssi, channel, assoc_channel, wifi_rssi, periph_lock,
                   btn_low, PressHist, last_get, open_gets, first_found, since_miss,
                   wifi_err>>
    /\ UNCHANGED <<retry, lost>>

\* ---------------------------------------------------------------- connect_wifi
\* What main's variables keep while connect_wifi runs.
MainUnchangedInWifi ==
    UNCHANGED <<led, wifi_rssi, sbs_lock, btn_low, act, cur_is_act, last_get, open_gets>>

\* wifi.rs:53-55  if last_rssi.is_none() { last_rssi = Some(channel.1) }
LatchRssiOverwrite(lr, r) == Some(r)
LatchRssi(lr, r) == IF lr = None THEN Some(r) ELSE lr

\* wifi.rs:48  last_rssi = None  (target network not found by this scan)
MissRssi(lr) == None

\* wifi.rs:16-32  locals, NVS partition, PERIPHERALS lock, modem, event loop,
\* driver, default configuration, start.  Every `?` returns Err to main.
WifiInit ==
    /\ pc = "w_init"
    /\ ~periph_lock
    /\ last_rssi' = None
    /\ channel' = None
    /\ assoc_channel' = None
    /\ first_found' = None
    /\ since_miss' = None
    /\ \E ok \in BOOLEAN :
          IF ok THEN pc' = "w_scan" /\ periph_lock' = TRUE /\ wifi_err' = wifi_err
                ELSE pc' = "w_err" /\ periph_lock' = FALSE /\ wifi_err' = "init"
    /\ UNCHANGED cur
    /\ MainUnchangedInWifi
    /\ retry' = "none"
    /\ UNCHANGED lost

\* wifi.rs:34  wifi.scan()? fails: connect_wifi returns Err, its guards dropped.
ScanErr ==
    /\ pc' = "w_err"
    /\ wifi_err' = "scan"
    /\ periph_lock' = FALSE
    /\ retry' = "none"
    /\ UNCHANGED <<last_rssi, channel, first_found, since_miss>>

\* wifi.rs:43-50  the configured access point is not among the results.
ScanMiss ==
    /\ last_rssi' = MissRssi(last_rssi)
    /\ since_miss' = None
    /\ retry' = "miss"
    /\ pc' = "w_backoff"
    /\ UNCHANGED <<channel, first_found, periph_lock, wifi_err>>

\* wifi.rs:37-42, 53-55  found on channel c with signal strength r.
ScanFound(c, r) ==
    /\ channel' = <<c, r>>
    /\ last_rssi' = LatchRssi(last_rssi, r)
    /\ first_found' = IF first_found = None THEN Some(r) ELSE first_found
    /\ since_miss' = IF since_miss = None THEN Some(r) ELSE since_miss
    /\ pc' = "w_conf"
    /\ retry' = "none"
    /\ UNCHANGED <<periph_lock, wifi_err>>

\* wifi.rs:33-55  one scan of 'wifi_loop and what follows it up to the next
\* blocking call.
WifiScan ==
    /\ pc = "w_scan"
    /\ \/ ScanErr
       \/ ScanMiss
       \/ \E c \in Channels, r \in RssiValues : ScanFound(c, r)
    /\ UNCHANGED <<assoc_channel, cur>>
    /\ MainUnchangedInWifi
    /\ UNCHANGED lost

\* Mutant of WifiBackoff: connect_wifi gives up after a scan that did not find the target.
WifiBackoffGivesUp ==
    /\ pc = "w_backoff"
    /\ pc' = "w_err"
    /\ wifi_err' = "scan"
    /\ periph_lock' = FALSE
    /\ cur' = Tick(cur)
    /\ UNCHANGED <<last_rssi, channel, assoc_channel, first_found, since_miss>>
    /\ MainUnchangedInWifi
    /\ UNCHANGED <<retry, lost>>

\* wifi.rs:49-50  FreeRtos::delay_ms(1000); continue 'wifi_loop
WifiBackoff ==
    /\ pc = "w_backoff"
    /\ pc' = "w_scan"
    /\ cur' = Tick(cur)
    /\ UNCHANGED <<last_rssi, channel, assoc_channel, first_found, since_miss, periph_lock,
                   wifi_err>>
    /\ MainUnchangedInWifi
    /\ UNCHANGED <<retry, lost>>

\* wifi.rs:57-67  wifi.set_configuration(... channel: Some(channel.0) ...)?
WifiSetConfiguration ==
    /\ pc = "w_conf"
    /\ \E ok \in BOOLEAN :
          IF ok THEN /\ assoc_channel' = Some(channel[1])
                     /\ pc' = "w_connect"
                     /\ UNCHANGED <<periph_lock, wifi_err>>
                ELSE /\ pc' = "w_err"
                     /\ wifi_err' = "set_configuration"
                     /\ periph_lock' = FALSE
                     /\ UNCHANGED assoc_channel
    /\ UNCHANGED <<last_rssi, channel, first_found, since_miss, cur>>
    /\ MainUnchangedInWifi
    /\ UNCHANGED <<retry, lost>>

\* wifi.rs:70-72  if wifi.connect() != Ok(()) { continue 'wifi_loop }
WifiConnect ==
    /\ pc = "w_connect"
    /\ \E ok \in BOOLEAN :
          IF ok THEN pc' = "w_dhcp" /\ retry' = retry
                ELSE pc' = "w_scan" /\ retry' = "assoc"
    /\ UNCHANGED <<last_rssi, channel, assoc_channel, first_found, since_miss,
                   periph_lock, wifi_err, cur>>
    /\ MainUnchangedInWifi
    /\ UNCHANGED lost

\* Mutant of WifiWaitNetifUp: after a DHCP failure the association is tried again on the
\* channel already configured, without a new scan.
WifiWaitNetifUpReassociates ==
    /\ pc = "w_dhcp"
    /\ \E ok \in BOOLEAN :
          IF ok THEN pc' = "w_ip" /\ retry' = retry
                ELSE pc' = "w_connect" /\ retry' = "dhcp"
    /\ UNCHANGED <<last_rssi, channel, assoc_channel, first_found, since_miss,
                   periph_lock, wifi_err, cur>>
    /\ MainUnchangedInWifi
    /\ UNCHANGED lost

\* wifi.rs:75-77  if wifi.wait_netif_up() != Ok(()) { continue 'wifi_loop }
WifiWaitNetifUp ==
    /\ pc = "w_dhcp"
    /\ \E ok \in BOOLEAN :
          IF ok THEN pc' = "w_ip" /\ retry' = retry
                ELSE pc' = "w_scan" /\ retry' = "dhcp"
    /\ UNCHANGED <<last_rssi, channel, assoc_channel, first_found, since_miss,
                   periph_lock, wifi_err, cur>>
    /\ MainUnchangedInWifi
    /\ UNCHANGED lost

\* wifi.rs:79-81  get_ip_info()?; break 'wifi_loop Ok((.., last_rssi.unwrap()))
\* main.rs:67-68  let mut wifi = connect_wifi(..).unwrap()   (the Ok case)
WifiReturn ==
    /\ pc = "w_ip"
    /\ periph_lock' = FALSE
    /\ \E ok \in BOOLEAN :
          IF ok THEN /\ wifi_rssi' = Some(Unwrap(last_rssi))
                     /\ open_gets' = 0
                     /\ pc' = "client_new"
                     /\ wifi_err' = wifi_err
                ELSE /\ pc' = "w_err"
                     /\ wifi_err' = "get_ip_info"
                     /\ UNCHANGED <<wifi_rssi, open_gets>>
    /\ last_rssi' = None
    /\ channel' = None
    /\ assoc_channel' = None
    /\ UNCHANGED <<first_found, since_miss, PressHist, led, sbs_lock, btn_low, last_get>>
    /\ retry' = "none"
    /\ lost' = (lost /\ pc' = "w_err")

\* main.rs:67  connect_wifi(..).unwrap() on Err: panic, the process ends.
WifiUnwrapPanic ==
    /\ pc = "w_err"
    /\ pc' = "panicked"
    /\ UNCHANGED <<last_rssi, channel, assoc_channel, first_found, since_miss,
                   periph_lock, wifi_err, cur>>
    /\ MainUnchangedInWifi
    /\ UNCHANGED <<retry, lost>>

\* ------------------------------------------------------------------------ main
\* The locals of connect_wifi and the histories of its call.
WifiLocals ==
    <<last_rssi, channel, assoc_channel, first_found, since_miss, periph_lock, wifi_err>>

\* main.rs:69  Client::wrap(EspHttpConnection::new(..)?)
ClientNew ==
    /\ pc = "client_new"
    /\ \E ok \in BOOLEAN : pc' = IF ok THEN "check_rssi" ELSE "exited"
    /\ UNCHANGED <<WifiLocals, led, wifi_rssi, sbs_lock, btn_low, PressHist,
                   last_get, open_gets>>
    /\ UNCHANGED <<retry, lost>>

\* main.rs:70  wifi.1 < app_config.max_rssi
WeakSignalOrEqual(rssi) == rssi <= max_rssi
WeakSignal(rssi) == rssi < max_rssi

\* main.rs:70  if wifi.1 < app_config.max_rssi { .. }
CheckRssi ==
    /\ pc = "check_rssi"
    /\ pc' = IF WeakSignal(Unwrap(wifi_rssi)) THEN "led_red" ELSE "led_green"
    /\ UNCHANGED <<WifiLocals, led, wifi_rssi, sbs_lock, btn_low, PressHist,
                   last_get, open_gets>>
    /\ UNCHANGED <<retry, lost>>

\* main.rs:73  led.set_pixel(red)?
LedRed ==
    /\ pc = "led_red"
    /\ SetPixel("red", "get_open")
    /\ UNCHANGED <<WifiLocals, wifi_rssi, btn_low, PressHist, last_get, open_gets>>
    /\ UNCHANGED <<retry, lost>>

\* main.rs:74, 116-122  get_request(gate_open_url, ..) is called: the GET goes out.
GetOpenSend ==
    /\ pc = "get_open"
    /\ pc' = "get_open_wait"
    /\ open_gets' = Inc(open_gets)
    /\ UNCHANGED <<WifiLocals, led, wifi_rssi, sbs_lock, btn_low, PressHist, last_get>>
    /\ UNCHANGED <<retry, lost>>

\* main.rs:74, 122-138  let _ = get_request(..): Ok or Err, discarded.
GetOpenReturn ==
    /\ pc = "get_open_wait"
    /\ pc' = "delay_open"
    /\ \E r \in {"Ok", "Err"} : last_get' = r
    /\ UNCHANGED <<WifiLocals, led, wifi_rssi, sbs_lock, btn_low, PressHist, open_gets>>
    /\ UNCHANGED <<retry, lost>>

\* main.rs:75  FreeRtos::delay_ms(1000)
DelayOpen ==
    /\ pc = "delay_open"
    /\ pc' = "led_green"
    /\ cur' = Tick(cur)
    /\ UNCHANGED <<WifiLocals, led, wifi_rssi, sbs_lock, btn_low, act, cur_is_act, last_get,
                   open_gets>>
    /\ UNCHANGED <<retry, lost>>

\* main.rs:79  led.set_pixel(green)?
LedGreen ==
    /\ pc = "led_green"
    /\ SetPixel("green", "lock_sbs")
    /\ UNCHANGED <<WifiLocals, wifi_rssi, btn_low, PressHist, last_get, open_gets>>
    /\ UNCHANGED <<retry, lost>>

\* main.rs:80-82  let mut gate_sbs = gate_sbs.lock(); set_pull(Pull::Up).unwrap()
LockSbs ==
    /\ pc = "lock_sbs"
    /\ ~sbs_lock
    /\ \E ok \in BOOLEAN :
          IF ok THEN pc' = "ap_info" /\ sbs_lock' = TRUE
                ELSE pc' = "panicked" /\ sbs_lock' = FALSE
    /\ UNCHANGED <<WifiLocals, led, wifi_rssi, btn_low, PressHist, last_get,
                   open_gets>>
    /\ UNCHANGED <<retry, lost>>

\* main.rs:86-87  get_ap_info().unwrap().signal_strength
ApInfo ==
    /\ pc = "ap_info"
    /\ \E ok \in BOOLEAN :
          IF ok THEN pc' = "sample" /\ sbs_lock' = sbs_lock
                ELSE pc' = "panicked" /\ sbs_lock' = FALSE
    /\ UNCHANGED <<WifiLocals, led, wifi_rssi, btn_low, PressHist, last_get,
                   open_gets>>
    /\ UNCHANGED <<retry, lost>>

\* main.rs:88  if gate_sbs.is_low() { .. } else { .. }
Sample ==
    /\ pc = "sample"
    /\ IF btn_low
          THEN /\ pc' = "led_blue"
               /\ cur' = [cur EXCEPT !.seenIdle = TRUE]
               /\ act' = NewPress
               /\ cur_is_act' = TRUE
          ELSE /\ pc' = "idle_delay"
               /\ UNCHANGED PressHist
    /\ UNCHANGED <<WifiLocals, led, wifi_rssi, sbs_lock, btn_low, last_get, open_gets>>
    /\ UNCHANGED <<retry, lost>>

\* main.rs:90  led.set_pixel(blue)?
LedBlue ==
    /\ pc = "led_blue"
    /\ SetPixel("blue", "get_sbs")
    /\ UNCHANGED <<WifiLocals, wifi_rssi, btn_low, PressHist, last_get, open_gets>>
    /\ UNCHANGED <<retry, lost>>

\* main.rs:91, 116-122  get_request(gate_sbs_url, ..) is called: the GET goes out.
GetSbsSend ==
    /\ pc = "get_sbs"
    /\ pc' = "get_sbs_wait"
    /\ IF cur_is_act THEN cur' = [cur EXCEPT !.disp = Inc(@)] /\ act' = act
                     ELSE act' = [act EXCEPT !.disp = Inc(@)] /\ cur' = cur
    /\ UNCHANGED <<WifiLocals, led, wifi_rssi, sbs_lock, btn_low, cur_is_act, last_get,
                   open_gets>>
    /\ UNCHANGED <<retry, lost>>

\* Mutant of GetSbsReturn: a failed step dispatch is sent again (back to the GET of line 91).
GetSbsReturnRetry ==
    /\ pc = "get_sbs_wait"
    /\ \E r \in {"Ok", "Err"} :
          /\ last_get' = r
          /\ pc' = IF r = "Ok" THEN "debounce" ELSE "get_sbs"
    /\ UNCHANGED <<WifiLocals, led, wifi_rssi, sbs_lock, btn_low, PressHist, open_gets>>
    /\ UNCHANGED <<retry, lost>>

\* main.rs:91, 122-138  let _ = get_request(..): Ok or Err, discarded.
GetSbsReturn ==
    /\ pc = "get_sbs_wait"
    /\ pc' = "debounce"
    /\ \E r \in {"Ok", "Err"} : last_get' = r
    /\ UNCHANGED <<WifiLocals, led, wifi_rssi, sbs_lock, btn_low, PressHist, open_gets>>
    /\ UNCHANGED <<retry, lost>>

\* main.rs:93  FreeRtos::delay_ms(100)  (avoid contact bounce and duplicate sensing)
Debounce ==
    /\ pc = "debounce"
    /\ pc' = "release_sample"
    /\ cur' = Tick(cur)
    /\ UNCHANGED <<WifiLocals, led, wifi_rssi, sbs_lock, btn_low, act, cur_is_act, last_get,
                   open_gets>>
    /\ UNCHANGED <<retry, lost>>

\* main.rs:94 with `if` for `while`: the wait for the release is skipped.
ReleaseSampleOnce ==
    /\ pc = "release_sample"
    /\ pc' = "led_green_idle"
    /\ IF cur_is_act THEN cur' = [cur EXCEPT !.rel = Inc(@)] /\ act' = act
                     ELSE act' = [act EXCEPT !.rel = Inc(@)] /\ cur' = cur
    /\ UNCHANGED <<WifiLocals, led, wifi_rssi, sbs_lock, btn_low, cur_is_act, last_get,
                   open_gets>>
    /\ UNCHANGED <<retry, lost>>

\* main.rs:94  while gate_sbs.is_low() { .. }
ReleaseSample ==
    /\ pc = "release_sample"
    /\ IF btn_low
          THEN /\ pc' = "release_delay"
               /\ cur' = [cur EXCEPT !.seenRel = TRUE]
               /\ act' = act
          ELSE /\ pc' = "led_green_idle"
               /\ IF cur_is_act THEN cur' = [cur EXCEPT !.rel = Inc(@)] /\ act' = act
                                ELSE act' = [act EXCEPT !.rel = Inc(@)] /\ cur' = cur
    /\ UNCHANGED <<WifiLocals, led, wifi_rssi, sbs_lock, btn_low, cur_is_act, last_get,
                   open_gets>>
    /\ UNCHANGED <<retry, lost>>

\* main.rs:95  FreeRtos::delay_ms(100)
ReleaseDelay ==
    /\ pc = "release_delay"
    /\ pc' = "release_sample"
    /\ cur' = Tick(cur)
    /\ UNCHANGED <<WifiLocals, led, wifi_rssi, sbs_lock, btn_low, act, cur_is_act, last_get,
                   open_gets>>
    /\ UNCHANGED <<retry, lost>>

\* Mutant of LedGreenIdle: the indicator is not set back to green after the release.
LedGreenIdleSkipped ==
    /\ pc = "led_green_idle"
    /\ pc' = "is_connected"
    /\ UNCHANGED <<WifiLocals, led, sbs_lock, wifi_rssi, btn_low, PressHist, last_get,
                   open_gets, retry, lost>>

\* main.rs:98  led.set_pixel(green)?
LedGreenIdle ==
    /\ pc = "led_green_idle"
    /\ SetPixel("green", "is_connected")
    /\ UNCHANGED <<WifiLocals, wifi_rssi, btn_low, PressHist, last_get, open_gets>>
    /\ UNCHANGED <<retry, lost>>

\* main.rs:100  FreeRtos::delay_ms(100)
IdleDelay ==
    /\ pc = "idle_delay"
    /\ pc' = "is_connected"
    /\ cur' = Tick(cur)
    /\ UNCHANGED <<WifiLocals, led, wifi_rssi, sbs_lock, btn_low, act, cur_is_act, last_get,
                   open_gets>>
    /\ UNCHANGED <<retry, lost>>

\* main.rs:103  if !wifi.0.driver_mut().is_connected().unwrap() { .. }
IsConnected ==
    /\ pc = "is_connected"
    /\ \E r \in {"Err", "up", "down"} :
          /\ pc' = CASE r = "Err" -> "panicked" [] r = "up" -> "ap_info"
                     [] r = "down" -> "led_violet"
          /\ sbs_lock' = IF r = "Err" THEN FALSE ELSE sbs_lock
    /\ UNCHANGED <<WifiLocals, led, wifi_rssi, btn_low, PressHist, last_get,
                   open_gets>>
    /\ UNCHANGED retry
    /\ lost' = (pc' = "led_violet")

\* main.rs:106  led.set_pixel(violet)?
LedViolet ==
    /\ pc = "led_violet"
    /\ SetPixel("violet", "cooldown")
    /\ UNCHANGED <<WifiLocals, wifi_rssi, btn_low, PressHist, last_get, open_gets>>
    /\ UNCHANGED <<retry, lost>>

\* main.rs:107-112  FreeRtos::delay_ms(60000); break 'reconnect_loop
\* (gate_sbs guard, client and wifi are dropped at the end of the block)
Cooldown ==
    /\ pc = "cooldown"
    /\ pc' = "led_amber"
    /\ cur' = Tick(cur)
    /\ sbs_lock' = FALSE
    /\ wifi_rssi' = None
    /\ UNCHANGED <<WifiLocals, led, btn_low, act, cur_is_act, last_get, open_gets>>
    /\ UNCHANGED <<retry, lost>>

\* -------------------------------------------------------- the button input
Alive == pc \notin {"panicked", "exited"}

\* The raw input goes low: a new low interval begins.
ButtonPress ==
    /\ Alive
    /\ ~btn_low
    /\ btn_low' = TRUE
    /\ cur' = NewPress
    /\ act' = IF cur_is_act THEN cur ELSE act
    /\ cur_is_act' = FALSE
    /\ UNCHANGED <<WifiLocals, pc, led, wifi_rssi, sbs_lock, last_get, open_gets>>
    /\ UNCHANGED <<retry, lost>>

\* The raw input goes high again.
ButtonRelease ==
    /\ Alive
    /\ btn_low
    /\ btn_low' = FALSE
    /\ UNCHANGED <<WifiLocals, pc, led, wifi_rssi, sbs_lock, PressHist, last_get,
                   open_gets>>
    /\ UNCHANGED <<retry, lost>>

\* =============================================================== Actuator Node

Handlers == 1..NumHandlers
Routes == {"/", "/gate_status", "/gate_sbs", "/gate_open"}
NoLevels == [opened |-> FALSE, closed |-> FALSE, pulse |-> FALSE]

AInit ==
    /\ hpc = [h \in Handlers |-> "idle"]
    /\ route = [h \in Handlers |-> "-"]
    /\ status = [h \in Handlers |-> None]
    /\ seen = [h \in Handlers |-> NoLevels]
    /\ result = [h \in Handlers |-> ""]
    /\ opened_lock = 0
    /\ closed_lock = 0
    /\ sbs_out_lock = 0
    /\ open_out_lock = 0
    /\ opened_high \in BOOLEAN
    /\ closed_high \in BOOLEAN
    /\ sbs_out = FALSE
    /\ open_out = FALSE
    /\ crashed = FALSE
    /\ fault = "none"

Locks == <<opened_lock, closed_lock, sbs_out_lock, open_out_lock>>
Sensors == <<opened_high, closed_high>>
Outputs == <<sbs_out, open_out>>

\* main.rs:137-156  the value gate_status() returns for the levels it reads
\* (the closed sensor is read only when the opened sensor is not high).
GateStatusClosedFirst(o, c) == IF c THEN 1 ELSE IF o THEN 0 ELSE 2
GateStatus(o, c) == IF o THEN 0 ELSE IF c THEN 1 ELSE 2

\* format!("{}", n) for the u8 values gate_status() returns
Digit(n) == CASE n = 0 -> "0" [] n = 1 -> "1" [] n = 2 -> "2" [] n = 3 -> "3"
              [] n = 4 -> "4" [] n = 5 -> "5" [] n = 6 -> "6" [] n = 7 -> "7"
              [] n = 8 -> "8" [] n = 9 -> "9"

\* main.rs:158-160  format!("{{\"s\":{}}}", gate_status())
gate_json_status(n) == "{\"s\":" \o Digit(n) \o "}"

\* main.rs:180-197  gate_page(): one of three documents, chosen by gate_status()
gate_page(n) == CASE n = 0 -> "page:opened" [] n = 1 -> "page:closed"
                  [] OTHER -> "page:intermediate"

\* main.rs:168, 177  the body gate_sbs() and gate_open() return
PulseReply == "{\"s\":2}"

\* main.rs:76-122  the server calls the handler registered for the request's route.
Accept(h) ==
    /\ ~crashed
    /\ hpc[h] = "idle"
    /\ \E r \in Routes :
          /\ route' = [route EXCEPT ![h] = r]
          /\ hpc' = [hpc EXCEPT ![h] =
                        IF r \in {"/", "/gate_status"} THEN "st_lock_opened" ELSE "p_lock"]
    /\ UNCHANGED <<status, seen, result, Locks, Sensors, Outputs, crashed, fault>>

\* main.rs:138-140  GATE_OPENED.lock(); set_pull(Pull::Floating).unwrap()
StLockOpenedNoWait(h) ==
    /\ ~crashed
    /\ hpc[h] = "st_lock_opened"
    /\ opened_lock' = h
    /\ \E ok \in BOOLEAN :
          IF ok THEN hpc' = [hpc EXCEPT ![h] = "st_read_opened"] /\ crashed' = FALSE /\ fault' = fault
                ELSE hpc' = hpc /\ crashed' = TRUE /\ fault' = "set_pull"
    /\ UNCHANGED <<route, status, seen, result, closed_lock, sbs_out_lock, open_out_lock,
                   Sensors, Outputs>>

StLockOpened(h) ==
    /\ ~crashed
    /\ hpc[h] = "st_lock_opened"
    /\ opened_lock = 0
    /\ opened_lock' = h
    /\ \E ok \in BOOLEAN :
          IF ok THEN hpc' = [hpc EXCEPT ![h] = "st_read_opened"] /\ crashed' = FALSE /\ fault' = fault
                ELSE hpc' = hpc /\ crashed' = TRUE /\ fault' = "set_pull"
    /\ UNCHANGED <<route, status, seen, result, closed_lock, sbs_out_lock, open_out_lock,
                   Sensors, Outputs>>

\* main.rs:141-144, 156  if gate_opened.is_high() { 0u8 } else { .. }
StReadOpened(h) ==
    /\ ~crashed
    /\ hpc[h] = "st_read_opened"
    /\ seen' = [seen EXCEPT ![h] = [opened |-> opened_high, closed |-> closed_high,
                                     pulse |-> sbs_out \/ open_out]]
    /\ IF opened_high
          THEN /\ status' = [status EXCEPT ![h] = Some(GateStatus(opened_high, closed_high))]
               /\ opened_lock' = 0
               /\ hpc' = [hpc EXCEPT ![h] = "st_body"]
          ELSE /\ hpc' = [hpc EXCEPT ![h] = "st_lock_closed"]
               /\ UNCHANGED <<status, opened_lock>>
    /\ UNCHANGED <<route, result, closed_lock, sbs_out_lock, open_out_lock, Sensors,
                   Outputs, crashed, fault>>

\* main.rs:145-147  GATE_CLOSED.lock(); set_pull(Pull::Floating).unwrap()
StLockClosed(h) ==
    /\ ~crashed
    /\ hpc[h] = "st_lock_closed"
    /\ closed_lock = 0
    /\ closed_lock' = h
    /\ \E ok \in BOOLEAN :
          IF ok THEN hpc' = [hpc EXCEPT ![h] = "st_read_closed"] /\ crashed' = FALSE /\ fault' = fault
                ELSE hpc' = hpc /\ crashed' = TRUE /\ fault' = "set_pull"
    /\ UNCHANGED <<route, status, seen, result, opened_lock, sbs_out_lock, open_out_lock,
                   Sensors, Outputs>>

\* Mutant of StReadClosed: the guard of GATE_CLOSED outlives the call.
StReadClosedKeepsLock(h) ==
    /\ ~crashed
    /\ hpc[h] = "st_read_closed"
    /\ seen' = [seen EXCEPT ![h].closed = closed_high,
                             ![h].pulse = @ \/ sbs_out \/ open_out]
    /\ status' = [status EXCEPT ![h] = Some(GateStatus(FALSE, closed_high))]
    /\ opened_lock' = 0
    /\ hpc' = [hpc EXCEPT ![h] = "st_body"]
    /\ UNCHANGED <<route, result, closed_lock, sbs_out_lock, open_out_lock, Sensors,
                   Outputs, crashed, fault>>

\* main.rs:148-156  if gate_closed.is_high() { 1u8 } else { 2u8 }; both guards dropped
StReadClosed(h) ==
    /\ ~crashed
    /\ hpc[h] = "st_read_closed"
    /\ seen' = [seen EXCEPT ![h].closed = closed_high,
                             ![h].pulse = @ \/ sbs_out \/ open_out]
    /\ status' = [status EXCEPT ![h] = Some(GateStatus(FALSE, closed_high))]
    /\ closed_lock' = 0
    /\ opened_lock' = 0
    /\ hpc' = [hpc EXCEPT ![h] = "st_body"]
    /\ UNCHANGED <<route, result, sbs_out_lock, open_out_lock, Sensors, Outputs, crashed, fault>>

\* main.rs:81, 93  let html = gate_page() / gate_json_status()
StBody(h) ==
    /\ ~crashed
    /\ hpc[h] = "st_body"
    /\ result' = [result EXCEPT ![h] =
                     IF route[h] = "/" THEN gate_page(Unwrap(status[h]))
                                       ELSE gate_json_status(Unwrap(status[h]))]
    /\ hpc' = [hpc EXCEPT ![h] = "respond"]
    /\ UNCHANGED <<route, status, seen, Locks, Sensors, Outputs, crashed, fault>>

\* ---------------------------------------------------------------- the pulses
\* main.rs:163-164  gate_sbs(): let mut guard = GATE_SBS.lock()
SbsLockNoWait(h) ==
    /\ ~crashed
    /\ hpc[h] = "p_lock"
    /\ route[h] = "/gate_sbs"
    /\ sbs_out_lock' = h
    /\ hpc' = [hpc EXCEPT ![h] = "p_set_high"]
    /\ UNCHANGED <<route, status, seen, result, opened_lock, closed_lock, open_out_lock,
                   Sensors, Outputs, crashed, fault>>

SbsLock(h) ==
    /\ ~crashed
    /\ hpc[h] = "p_lock"
    /\ route[h] = "/gate_sbs"
    /\ sbs_out_lock = 0
    /\ sbs_out_lock' = h
    /\ hpc' = [hpc EXCEPT ![h] = "p_set_high"]
    /\ UNCHANGED <<route, status, seen, result, opened_lock, closed_lock, open_out_lock,
                   Sensors, Outputs, crashed, fault>>

\* main.rs:165  set_high().unwrap()
SbsSetHigh(h) ==
    /\ ~crashed
    /\ hpc[h] = "p_set_high"
    /\ route[h] = "/gate_sbs"
    /\ \E ok \in BOOLEAN :
          IF ok THEN /\ sbs_out' = TRUE
                     /\ hpc' = [hpc EXCEPT ![h] = "p_delay"]
                     /\ crashed' = FALSE /\ fault' = fault
                ELSE /\ crashed' = TRUE /\ fault' = "set_high"
                     /\ UNCHANGED <<sbs_out, hpc>>
    /\ UNCHANGED <<route, status, seen, result, Locks, Sensors, open_out>>

\* main.rs:166  FreeRtos::delay_ms(200)
SbsDelay(h) ==
    /\ ~crashed
    /\ hpc[h] = "p_delay"
    /\ route[h] = "/gate_sbs"
    /\ hpc' = [hpc EXCEPT ![h] = "p_set_low"]
    /\ UNCHANGED <<route, status, seen, result, Locks, Sensors, Outputs, crashed, fault>>

\* Mutant of SbsSetLow: the reply reports the position of the gate instead of the fixed
\* "moving" document.
SbsSetLowRepliesStatus(h) ==
    /\ ~crashed
    /\ hpc[h] = "p_set_low"
    /\ route[h] = "/gate_sbs"
    /\ sbs_out' = FALSE
    /\ sbs_out_lock' = 0
    /\ result' = [result EXCEPT ![h] = gate_json_status(GateStatus(opened_high, closed_high))]
    /\ hpc' = [hpc EXCEPT ![h] = "respond"]
    /\ UNCHANGED <<route, status, seen, opened_lock, closed_lock, open_out_lock, Sensors,
                   open_out, crashed, fault>>

\* Mutant of SbsSetLow: the relay line is not lowered before the lock is released.
SbsSetLowOmitted(h) ==
    /\ ~crashed
    /\ hpc[h] = "p_set_low"
    /\ route[h] = "/gate_sbs"
    /\ sbs_out_lock' = 0
    /\ result' = [result EXCEPT ![h] = PulseReply]
    /\ hpc' = [hpc EXCEPT ![h] = "respond"]
    /\ UNCHANGED <<route, status, seen, opened_lock, closed_lock, open_out_lock, Sensors,
                   Outputs, crashed, fault>>

\* main.rs:167-169  set_low().unwrap(); the reply; the guard is dropped
SbsSetLow(h) ==
    /\ ~crashed
    /\ hpc[h] = "p_set_low"
    /\ route[h] = "/gate_sbs"
    /\ \E ok \in BOOLEAN :
          IF ok THEN /\ sbs_out' = FALSE
                     /\ sbs_out_lock' = 0
                     /\ result' = [result EXCEPT ![h] = PulseReply]
                     /\ hpc' = [hpc EXCEPT ![h] = "respond"]
                     /\ crashed' = FALSE /\ fault' = fault
                ELSE /\ crashed' = TRUE /\ fault' = "set_low"
                     /\ UNCHANGED <<sbs_out, sbs_out_lock, result, hpc>>
    /\ UNCHANGED <<route, status, seen, opened_lock, closed_lock, open_out_lock, Sensors,
                   open_out>>

\* main.rs:172-173  gate_open(): let mut guard = GATE_OPEN.lock()
OpenLockNoWait(h) ==
    /\ ~crashed
    /\ hpc[h] = "p_lock"
    /\ route[h] = "/gate_open"
    /\ open_out_lock' = h
    /\ hpc' = [hpc EXCEPT ![h] = "p_set_high"]
    /\ UNCHANGED <<route, status, seen, result, opened_lock, closed_lock, sbs_out_lock,
                   Sensors, Outputs, crashed, fault>>

OpenLock(h) ==
    /\ ~crashed
    /\ hpc[h] = "p_lock"
    /\ route[h] = "/gate_open"
    /\ open_out_lock = 0
    /\ open_out_lock' = h
    /\ hpc' = [hpc EXCEPT ![h] = "p_set_high"]
    /\ UNCHANGED <<route, status, seen, result, opened_lock, closed_lock, sbs_out_lock,
                   Sensors, Outputs, crashed, fault>>

\* main.rs:174  set_high().unwrap()
OpenSetHigh(h) ==
    /\ ~crashed
    /\ hpc[h] = "p_set_high"
    /\ route[h] = "/gate_open"
    /\ \E ok \in BOOLEAN :
          IF ok THEN /\ open_out' = TRUE
                     /\ hpc' = [hpc EXCEPT ![h] = "p_delay"]
                     /\ crashed' = FALSE /\ fault' = fault
                ELSE /\ crashed' = TRUE /\ fault' = "set_high"
                     /\ UNCHANGED <<open_out, hpc>>
    /\ UNCHANGED <<route, status, seen, result, Locks, Sensors, sbs_out>>

\* main.rs:175  FreeRtos::delay_ms(200)
OpenDelay(h) ==
    /\ ~crashed
    /\ hpc[h] = "p_delay"
    /\ route[h] = "/gate_open"
    /\ hpc' = [hpc EXCEPT ![h] = "p_set_low"]
    /\ UNCHANGED <<route, status, seen, result, Locks, Sensors, Outputs, crashed, fault>>

\* main.rs:176-178  set_low().unwrap(); the reply; the guard is dropped
OpenSetLow(h) ==
    /\ ~crashed
    /\ hpc[h] = "p_set_low"
    /\ route[h] = "/gate_open"
    /\ \E ok \in BOOLEAN :
          IF ok THEN /\ open_out' = FALSE
                     /\ open_out_lock' = 0
                     /\ result' = [result EXCEPT ![h] = PulseReply]
                     /\ hpc' = [hpc EXCEPT ![h] = "respond"]
                     /\ crashed' = FALSE /\ fault' = fault
                ELSE /\ crashed' = TRUE /\ fault' = "set_low"
                     /\ UNCHANGED <<open_out, open_out_lock, result, hpc>>
    /\ UNCHANGED <<route, status, seen, opened_lock, closed_lock, sbs_out_lock, Sensors,
                   sbs_out>>

\* main.rs:82-84, 94-96, 106-108, 118-120  into_ok_response()?; write_all(..)?
\* The response is written, or the write fails: the handler returns either way.
Respond(h) ==
    /\ ~crashed
    /\ hpc[h] = "respond"
    /\ hpc' = [hpc EXCEPT ![h] = "idle"]
    /\ route' = [route EXCEPT ![h] = "-"]
    /\ status' = [status EXCEPT ![h] = None]
    /\ seen' = [seen EXCEPT ![h] = NoLevels]
    /\ result' = [result EXCEPT ![h] = ""]
    /\ UNCHANGED <<Locks, Sensors, Outputs, crashed, fault>>

\* The gate moves: a sensor input changes its electrical level.
SensorChange ==
    /\ ~crashed
    /\ \/ opened_high' = ~opened_high /\ UNCHANGED closed_high
       \/ closed_high' = ~closed_high /\ UNCHANGED opened_high
    /\ UNCHANGED <<hpc, route, status, seen, result, Locks, Outputs, crashed, fault>>

\* ============================================================ specifications
\* One step of the Trigger Node's main thread (main.rs:49-113 and the connect_wifi it calls).
MainStep ==
    \/ LedAmber \/ WifiInit \/ WifiScan \/ WifiBackoff \/ WifiSetConfiguration
    \/ WifiConnect \/ WifiWaitNetifUp \/ WifiReturn \/ WifiUnwrapPanic
    \/ ClientNew \/ CheckRssi \/ LedRed \/ GetOpenSend \/ GetOpenReturn \/ DelayOpen
    \/ LedGreen \/ LockSbs \/ ApInfo \/ Sample \/ LedBlue \/ GetSbsSend \/ GetSbsReturn
    \/ Debounce \/ ReleaseSample \/ ReleaseDelay \/ LedGreenIdle \/ IdleDelay
    \/ IsConnected \/ LedViolet \/ Cooldown

\* The main thread and the button (the environment).
TNext == MainStep \/ ButtonPress \/ ButtonRelease

ANext ==
    \/ \E h \in Handlers :
          \/ Accept(h)
          \/ StLockOpened(h) \/ StReadOpened(h) \/ StLockClosed(h) \/ StReadClosed(h)
          \/ StBody(h)
          \/ SbsLock(h) \/ SbsSetHigh(h) \/ SbsDelay(h) \/ SbsSetLow(h)
          \/ OpenLock(h) \/ OpenSetHigh(h) \/ OpenDelay(h) \/ OpenSetLow(h)
          \/ Respond(h)
    \/ SensorChange

Init == TInit /\ AInit

\* The Trigger Node alone.
SpecTrigger == Init /\ [][TNext /\ UNCHANGED avars]_vars

\* The Actuator Node alone.
SpecActuator == Init /\ [][ANext /\ UNCHANGED tvars]_vars

\* The Trigger Node alone, its main thread always taking its next step: it is the only
\* thread of the program and every blocking call and delay in it ends.
SpecTriggerFair ==
    /\ Init
    /\ [][TNext /\ UNCHANGED avars]_vars
    /\ WF_vars(MainStep /\ UNCHANGED avars)

\* ==================================================================== claims

\* ---- Trigger Node, checked under SpecTrigger

\* A session: connect_wifi has returned Ok and the block of main is running.
InSession == wifi_rssi # None
\* The positions of the button-polling loop (main.rs:85-111).
PollingPcs ==
    {"ap_info", "sample", "led_blue", "get_sbs", "get_sbs_wait", "debounce",
     "release_sample", "release_delay", "led_green_idle", "idle_delay", "is_connected",
     "led_violet", "cooldown"}
\* The positions at which the edge detector is Active (main.rs:89-96).
ActivePcs ==
    {"led_blue", "get_sbs", "get_sbs_wait", "debounce", "release_sample", "release_delay"}
\* The low interval the sample of line 88 saw.
ActRec == IF cur_is_act THEN cur ELSE act
\* The sample of line 88 saw the input low and its GET is not out yet.
DispatchPending == pc \in {"led_blue", "get_sbs"}
\* ... or will never be: main has returned (Err of an indicator write, main.rs:90 `?`).
DispatchCutShort == DispatchPending \/ pc = "exited"

\* C1: in every session, from the first sample of the polling loop on, the
\* number of GETs to gate_open_url is exactly one when the baseline RSSI is
\* strictly below max_rssi; with the baseline at or above max_rssi it is zero
\* at every point of the session.
C1_OpenOnWeakSignal ==
    InSession =>
        /\ Unwrap(wifi_rssi) >= max_rssi => open_gets = 0
        /\ pc \in PollingPcs =>
              open_gets = IF Unwrap(wifi_rssi) < max_rssi THEN 1 ELSE 0

\* C1 witness: the first sample is about to be taken in a weak-signal session
\* whose single open dispatch has gone out.
C1_Witness ==
    /\ pc = "sample"
    /\ InSession
    /\ Unwrap(wifi_rssi) = max_rssi - 1
    /\ open_gets = 1
    /\ led = "green"

\* Parts of C2 that hold as stated: at most one dispatch per low interval, a
\* dispatch only for an interval the Idle sample saw, one return to Idle per
\* dispatch, made when the release poll samples the input high.
C2_OncePerPress ==
    /\ \A r \in {cur, act} :
          /\ r.disp <= 1
          /\ r.rel <= r.disp
          /\ r.disp = 1 => r.seenIdle
    /\ pc \notin ActivePcs => ActRec.rel = ActRec.disp
    /\ pc \in ActivePcs \ {"led_blue", "get_sbs"} => ActRec.disp = 1 /\ ActRec.rel = 0

\* C2 (as stated): every low interval that lasted a debounce window and was
\* seen low by a sample has exactly one step dispatch.
C2_EverySeenPressDispatches ==
    /\ C2_OncePerPress
    /\ \A r \in {cur, act} :
          (r.held /\ (r.seenIdle \/ r.seenRel) /\ ~(r = ActRec /\ DispatchCutShort))
              => r.disp = 1

\* C2 (amended): every low interval seen low by the Idle sample of line 88 has
\* exactly one step dispatch, however long it is held (none if main has
\* returned on the indicator write between the sample and the GET); a low interval that
\* begins while the detector is Active for an earlier one (seen only by the
\* release poll) has none; each dispatch is followed by one return to Idle.
C2_IdleSampledPressDispatchesOnce ==
    /\ C2_OncePerPress
    /\ \A r \in {cur, act} :
          /\ (r.seenIdle /\ ~(r = ActRec /\ DispatchCutShort)) => r.disp = 1
          /\ ~r.seenIdle => r.disp = 0

\* C2 witness: one press was dispatched and released; a second one, begun
\* during the debounce wait and held across a window, was absorbed; the
\* detector is Idle again.
C2_Witness ==
    /\ pc = "sample"
    /\ ~btn_low
    /\ ~cur_is_act
    /\ act.seenIdle /\ act.disp = 1 /\ act.rel = 1
    /\ cur.held /\ cur.seenRel /\ cur.disp = 0

\* C3: a glitch (a low interval that ended before one whole debounce window
\* elapsed) has no step dispatch.
C3_GlitchNoDispatch ==
    \A r \in {cur, act} :
        (~r.held /\ (r = cur => ~btn_low)) => r.disp = 0

\* C8: no pin lock is held while a network operation is in progress.  On the
\* Trigger Node the pin lock is the button-input lock and the network
\* operations are the scan, the association, the DHCP wait and the two GETs;
\* on the Actuator Node a handler writing its response holds no pin lock.
C8_NoPinLockAcrossNetwork ==
    /\ pc \in {"w_scan", "w_connect", "w_dhcp", "get_open_wait", "get_sbs_wait"}
          => ~sbs_lock
    /\ \A h \in Handlers :
          hpc[h] = "respond" =>
              h \notin {opened_lock, closed_lock, sbs_out_lock, open_out_lock}

\* C9: once its scan loop runs, connect_wifi never returns an error: a scan
\* failure, an association failure or a DHCP failure restarts the loop.
C9_LoopErrorsNonFatal ==
    /\ wifi_err \in {"none", "init"}
    /\ pc = "panicked" => wifi_err # "scan"

\* C10 (as stated): the baseline a call returns is the strength of the first
\* scan of that call that found the network.
C10_BaselineIsFirstFound ==
    InSession => wifi_rssi = first_found

\* C10 (amended): the baseline is the strength of the first scan that found
\* the network since the latest not-found scan of the call (or since the call
\* began): scans after an association or DHCP failure do not overwrite it, a
\* not-found scan clears it.
C10_BaselineIsFirstFoundSinceMiss ==
    /\ pc \in {"w_scan", "w_backoff", "w_conf", "w_connect", "w_dhcp", "w_ip"}
          => last_rssi = since_miss
    /\ InSession => wifi_rssi = since_miss

\* C10 witness: a call has just returned a baseline that is not the strength
\* of its first successful scan, a not-found scan having come in between.
C10_Witness ==
    /\ pc = "client_new"
    /\ InSession
    /\ wifi_rssi = since_miss
    /\ first_found # since_miss

\* ---- Actuator Node, checked under SpecActuator

\* The contexts whose pulse has raised its output and not yet lowered it.
InHigh(r) == {h \in Handlers : route[h] = r /\ hpc[h] \in {"p_delay", "p_set_low"}}
\* The contexts that hold the opened-sensor lock inside gate_status().
Reading == {h \in Handlers : hpc[h] \in {"st_read_opened", "st_lock_closed", "st_read_closed"}}

\* C4: gate_status() returns 0 iff the opened sensor read high, 1 iff it read
\* low and the closed sensor read high, 2 otherwise, and the /gate_status
\* body is {"s":n} with that n.
C4_StatusTruthTable ==
    \A h \in Handlers :
        status[h] # None =>
            LET n == Unwrap(status[h])
                o == seen[h].opened
                c == seen[h].closed
            IN  /\ n \in {0, 1, 2}
                /\ (n = 0) <=> o
                /\ (n = 1) <=> (~o /\ c)
                /\ (n = 2) <=> (~o /\ ~c)
                /\ (hpc[h] = "respond" /\ route[h] = "/gate_status") =>
                      result[h] = CASE n = 0 -> "{\"s\":0}" [] n = 1 -> "{\"s\":1}"
                                    [] n = 2 -> "{\"s\":2}"

\* C4 witness: a /gate_status request that read (opened low, closed high)
\* is about to reply {"s":1}.
C4_Witness ==
    \E h \in Handlers :
        /\ hpc[h] = "respond"
        /\ route[h] = "/gate_status"
        /\ ~seen[h].opened /\ seen[h].closed
        /\ result[h] = "{\"s\":1}"

\* C5: with active-low sensors, gate_status() returns 2 (Intermediate) when
\* both sensors are active (both read low) and when neither is (both read high).
C5_AmbiguityIsIntermediate ==
    \A h \in Handlers :
        (status[h] # None /\ seen[h].opened = seen[h].closed) => Unwrap(status[h]) = 2

\* C6: for each relay output at most one request is between raising and
\* lowering the line, and a request about to raise it finds it low.
C6_PulsesDoNotOverlap ==
    /\ Cardinality(InHigh("/gate_sbs")) <= 1
    /\ Cardinality(InHigh("/gate_open")) <= 1
    /\ \A h \in Handlers :
          hpc[h] = "p_set_high" =>
              /\ route[h] = "/gate_sbs" => ~sbs_out /\ InHigh("/gate_sbs") = {}
              /\ route[h] = "/gate_open" => ~open_out /\ InHigh("/gate_open") = {}

\* C6 witness: one /gate_sbs request holds the step output high while another
\* waits for the lock.
C6_Witness ==
    \E h, g \in Handlers :
        /\ h # g
        /\ route[h] = "/gate_sbs" /\ hpc[h] = "p_delay" /\ sbs_out
        /\ route[g] = "/gate_sbs" /\ hpc[g] = "p_lock"

\* C7 (as stated): gate_status() never samples a sensor while a relay output
\* is driven high by a pulse.
C7_NoReadDuringPulse ==
    \A h \in Handlers : ~seen[h].pulse

\* C7 (amended): position reads are serialised with each other, not with
\* pulses: at most one context at a time is inside gate_status() holding the
\* opened-sensor lock (and so the closed-sensor lock), the sensor locks are
\* held only by reading contexts and the relay locks only by pulsing ones
\* (while the process runs).
C7_ReadsSerialisedAmongReads ==
    ~crashed =>
        /\ Cardinality(Reading) <= 1
        /\ \A h \in Handlers :
              /\ (opened_lock = h) <=> (h \in Reading)
              /\ (closed_lock = h) <=> (hpc[h] = "st_read_closed")
              /\ (h \in Reading) => h \notin {sbs_out_lock, open_out_lock}

\* C7 witness: a position read has sampled a sensor while another request's
\* pulse held the step output high.
C7_Witness ==
    \E h, g \in Handlers :
        /\ h # g
        /\ status[h] # None /\ seen[h].pulse
        /\ route[g] = "/gate_sbs" /\ hpc[g] \in {"p_delay", "p_set_low"} /\ sbs_out

\* ---------------------------------------------------------------------------------------
\* C11: on the Trigger Node the result of get_request is discarded (main.rs:74 and :91,
\* "let _ ="): whatever it returns, the open dispatch is followed by the 1 s delay and the
\* step dispatch by the debounce wait, with the indicator and the press bookkeeping
\* untouched, and a GET is only ever begun from the indicator write before it, never
\* from a returned GET (no retry).
C11_FailedDispatchIgnored ==
    [][/\ (pc = "get_open_wait" /\ pc' # pc)
            => (pc' = "delay_open" /\ led' = led /\ open_gets' = open_gets)
       /\ (pc = "get_sbs_wait" /\ pc' # pc)
            => (pc' = "debounce" /\ led' = led /\ ActRec' = ActRec)
       /\ (pc' = "get_open" /\ pc # pc') => pc = "led_red"
       /\ (pc' = "get_sbs" /\ pc # pc') => pc = "led_blue"
       /\ ActRec'.disp <= 1 /\ open_gets' <= 1]_vars

\* A step dispatch failed, and the debounce wait and the release polling follow under a
\* blue indicator with the one dispatch counted.
C11_Witness ==
    /\ last_get = "Err"
    /\ pc = "release_sample"
    /\ led = "blue"
    /\ ActRec.disp = 1

\* ---------------------------------------------------------------------------------------
\* C12: a failure of a relay pin call during a pulse (GateServer main.rs:165, :167, :174,
\* :176), or of the link-status or RSSI query of the polling loop (GateControl main.rs:86,
\* :103), never ends the process.
C12_FaultNeverEndsProcess ==
    /\ ~(crashed /\ fault \in {"set_high", "set_low"})
    /\ ~(pc = "panicked" /\ wifi_err = "none")

\* ---------------------------------------------------------------------------------------
\* The positions inside a call of connect_wifi (wifi.rs:8-83).
WifiPcs == {"w_init", "w_scan", "w_backoff", "w_conf", "w_connect", "w_dhcp", "w_ip"}

\* C13: the Trigger Node's indicator colour is determined by the control state: amber
\* during connect_wifi, red during the weak-signal open dispatch and its delay, green
\* while polling with the detector Idle, blue from the step dispatch until the release
\* poll samples the input high, violet during the cooldown after an observed link loss.
C13_IndicatorFollowsState ==
    /\ pc \in WifiPcs => led = "amber"
    /\ pc \in {"get_open", "get_open_wait", "delay_open"} => led = "red"
    /\ pc \in {"lock_sbs", "ap_info", "sample", "idle_delay", "is_connected"} => led = "green"
    /\ pc \in {"get_sbs", "get_sbs_wait", "debounce", "release_sample", "release_delay"}
          => led = "blue"
    /\ pc = "cooldown" => led = "violet"

\* A link loss is observed after a dispatched press: the indicator has been blue, green
\* again, and is violet during the cooldown.
C13_Witness ==
    /\ pc = "cooldown"
    /\ led = "violet"
    /\ ActRec.disp = 1 /\ ActRec.rel = 1

\* ---------------------------------------------------------------------------------------
\* The positions inside gate_status (GateServer main.rs:137-156).
StatusPcs == {"st_lock_opened", "st_read_opened", "st_lock_closed", "st_read_closed"}

\* Two evaluations of gate_status read the same sensor levels (the closed sensor is read
\* only when the opened sensor is low).
SameLevels(h, g) ==
    /\ seen[h].opened = seen[g].opened
    /\ ~seen[h].opened => seen[h].closed = seen[g].closed

\* C14: gate_status changes nothing a later gate_status reads: its steps leave the sensor
\* levels and the relay outputs alone, the two sensor locks are free again whenever no
\* context is inside it, and any two evaluations that read the same levels return the
\* same position.
C14_StatusIsIdempotent ==
    /\ [][(\E h \in Handlers : hpc[h] \in StatusPcs /\ hpc'[h] # hpc[h])
              => UNCHANGED <<Sensors, Outputs>>]_vars
    /\ []((\A h \in Handlers : hpc[h] \notin StatusPcs)
              => (opened_lock = 0 /\ closed_lock = 0))
    /\ [](\A h, g \in Handlers :
              (status[h] # None /\ status[g] # None /\ SameLevels(h, g))
                  => status[h] = status[g])

\* One status query has its reply ready while another one, evaluated on the same levels,
\* has just left gate_status with the same position.
C14_Witness ==
    \E h, g \in Handlers :
        /\ h # g
        /\ hpc[h] = "respond" /\ route[h] = "/gate_status"
        /\ hpc[g] = "st_body" /\ route[g] = "/gate_status"
        /\ SameLevels(h, g)
        /\ status[h] = Some(1) /\ status[g] = Some(1)
        /\ opened_lock = 0 /\ closed_lock = 0

\* ---------------------------------------------------------------------------------------
\* C15: the handlers of /gate_sbs and /gate_open reply {"s":2} whatever the sensor levels
\* are when the reply is made.
C15_PulseReplyIsMoving ==
    \A h \in Handlers :
        (hpc[h] = "respond" /\ route[h] \in {"/gate_sbs", "/gate_open"})
            => result[h] = "{\"s\":2}"

\* Both pulse targets have a reply ready while the sensors read "opened" (position 0).
C15_Witness ==
    \E h, g \in Handlers :
        /\ hpc[h] = "respond" /\ route[h] = "/gate_sbs"
        /\ hpc[g] = "respond" /\ route[g] = "/gate_open"
        /\ opened_high
        /\ result[h] = "{\"s\":2}" /\ result[g] = "{\"s\":2}"

\* ---------------------------------------------------------------------------------------
\* C16: in connect_wifi an association attempt (wifi.rs:70) is only entered from the
\* set_configuration of line 57, which is only entered from a scan that found the target
\* (wifi.rs:34-42) and configures the channel that scan reported; after a failed
\* association or a failed wait_netif_up the next step is a scan.
C16_AssociateOnlyAfterScan ==
    /\ [][/\ (pc' = "w_connect" /\ pc # pc') => pc = "w_conf"
          /\ (pc' = "w_conf" /\ pc # pc')
                => (pc = "w_scan" /\ channel' # None /\ channel'[1] \in Channels)
          /\ (pc = "w_conf" /\ pc' = "w_connect")
                => (channel' = channel /\ assoc_channel' = Some(channel[1]))
          /\ (pc = "w_connect" /\ pc' # pc) => pc' \in {"w_dhcp", "w_scan"}
          /\ (pc = "w_dhcp" /\ pc' # pc) => pc' \in {"w_ip", "w_scan"}]_vars
    /\ [](pc \in {"w_connect", "w_dhcp", "w_ip"}
              => (channel # None /\ assoc_channel = Some(channel[1])))

\* A second association attempt follows a failed one: the target was found again, on
\* another channel than the first time (the first found strength is still the baseline),
\* and the attempt uses the channel of the later scan.
C16_Witness ==
    /\ pc = "w_connect"
    /\ channel = <<6, max_rssi + 1>>
    /\ assoc_channel = Some(6)
    /\ last_rssi = Some(max_rssi - 1)

\* ---------------------------------------------------------------------------------------
\* C17 (Trigger Node): once the is_connected poll has observed the loss of the link
\* (main.rs:103) the node is on its way to the next connect_wifi call or inside it: it
\* writes the violet indicator, waits the cooldown, writes amber and calls connect_wifi,
\* which starts without a baseline; until that call has returned no GET is begun.
C17_LossLeadsToReconnect ==
    lost =>
        /\ pc \in {"led_violet", "cooldown", "led_amber", "w_err", "panicked"} \cup WifiPcs
        /\ pc \in {"led_violet", "cooldown", "led_amber", "w_init"} => last_rssi = None

\* ---------------------------------------------------------------------------------------
\* C18: connect_wifi has no attempt counter: after a scan that did not find the target the
\* only continuation is the one-second wait and another scan, however many there have
\* been; and it terminates under fairness: if from some point on no scan misses the
\* target and no association or wait_netif_up fails, every call of connect_wifi returns.
C18_RetriesUnboundedAndReturns ==
    /\ [][(pc = "w_backoff" /\ pc' # pc) => pc' = "w_scan"]_vars
    /\ (pc = "w_backoff") ~> (pc = "w_scan")
    /\ (<>[](retry = "none")) => []<>(pc \notin WifiPcs)

\* A call of connect_wifi has returned although a scan after the first successful one did
\* not find the target: the strength it returns is the one found after that miss.
C18_Witness ==
    /\ pc = "client_new"
    /\ first_found = Some(max_rssi - 1)
    /\ since_miss = Some(max_rssi + 1)
    /\ wifi_rssi = Some(max_rssi + 1)

\* ---------------------------------------------------------------------------------------
\* One step of handler h between the acceptance of its request and its reply.
HandlerStep(h) ==
    \/ StLockOpened(h) \/ StReadOpened(h) \/ StLockClosed(h) \/ StReadClosed(h)
    \/ StBody(h)
    \/ SbsLock(h) \/ SbsSetHigh(h) \/ SbsDelay(h) \/ SbsSetLow(h)
    \/ OpenLock(h) \/ OpenSetHigh(h) \/ OpenDelay(h) \/ OpenSetLow(h)
    \/ Respond(h)

\* C19: the handlers of the Actuator Node never get stuck: whenever some request is being
\* served, some handler can take its next step and none holds a lock for good (with a
\* fair scheduler this is what makes every handler release its locks and complete).
C19_HandlersNeverStuck ==
    (\E h \in Handlers : hpc[h] # "idle") => ENABLED (\E h \in Handlers : HandlerStep(h))

\* ---------------------------------------------------------------------------------------
\* No relay pin call has failed.
NoPinFault == fault \notin {"set_high", "set_low"}

\* Handler h took a step of a pulse on route r.
PulseStep(h, r) == route[h] = r /\ hpc[h] \in {"p_lock", "p_set_high", "p_delay", "p_set_low"}
                      /\ hpc'[h] # hpc[h]

\* C20: while no relay pin call has failed, a relay output is high only while a handler
\* that is between its set_high and its set_low holds that output's lock (so it is low
\* whenever the lock is free), a pulse handler that has its reply ready holds no relay
\* lock, and a step of a pulse on one target leaves the other target's output unchanged.
C20_OutputHighOnlyUnderLock ==
    /\ [](NoPinFault =>
            /\ sbs_out_lock = 0 => ~sbs_out
            /\ open_out_lock = 0 => ~open_out
            /\ sbs_out => hpc[sbs_out_lock] \in {"p_delay", "p_set_low"}
            /\ open_out => hpc[open_out_lock] \in {"p_delay", "p_set_low"}
            /\ \A h \in Handlers :
                  hpc[h] = "respond" => h \notin {sbs_out_lock, open_out_lock})
    /\ [][\A h \in Handlers :
            /\ PulseStep(h, "/gate_sbs") => open_out' = open_out
            /\ PulseStep(h, "/gate_open") => sbs_out' = sbs_out]_vars

\* A step pulse is over (line low again, lock free, reply ready) while a full-cycle pulse
\* of another handler is still holding its own line high.
C20_Witness ==
    \E h, g \in Handlers :
        /\ hpc[h] = "respond" /\ route[h] = "/gate_sbs"
        /\ ~sbs_out /\ sbs_out_lock = 0
        /\ hpc[g] = "p_set_low" /\ route[g] = "/gate_open"
        /\ open_out /\ open_out_lock = g
        /\ NoPinFault

====
